---- MODULE Spec2Model ----
(***************************************************************************)
(* JSON_bourne: one WebScraper thread per instrument polls the instrument  *)
(* and stores the result in the shared dictionary _scraped_data under     *)
(* _scraped_data_lock; request handler threads (MyHandler.do_GET) read    *)
(* the dictionary under the same lock; the main thread starts the         *)
(* scrapers, serves requests and, on KeyboardInterrupt, stops and joins   *)
(* the scrapers.  Source: src/webserver.py,                               *)
(* src/external_webpage/get_webpage.py.                                   *)
(***************************************************************************)
EXTENDS Integers, Sequences, FiniteSets, TLC

(***************************************************************************)
(* Sizes of the model.                                                     *)
(***************************************************************************)
\* The three numbers of webserver.py:32-34 are 3, 60 and 60.  The model runs
\* the same loops with smaller numbers that keep their order (the wait after
\* a failure is the longer one), so that the state space stays small; every
\* property below is stated in terms of the names, not of the values.

\* webserver.py:32  seconds between two polls (one tick of wait() a second)
WAIT_BETWEEN_UPDATES == 2

\* webserver.py:33  seconds before the next poll after a failed one
WAIT_BETWEEN_FAILED_UPDATES == 3

\* webserver.py:34  failed polls between two failure notices
RETRIES_BETWEEN_LOGS == 2

\* the instruments of ALL_INSTS (webserver.py:21-27), two of them
Insts == {"A", "B"}

\* webserver.py:192-196  the list of the scraper threads, in the order of
\* ALL_INSTS.items()
web_scrapers == <<"A", "B">>

\* the handler threads ThreadedHTTPServer runs at once
Handlers == {"h1"}

\* what scrape_webpage can return: a reading json.dumps accepts and one it
\* rejects
Readings == {"R1", "RBad"}

\* the value the scraper stores for a failed poll (webserver.py:188)
Unavailable == ""

None == "None"

\* Instrument tokens of a request path; NoParam: the parameter is missing
\* or does not match the handler's regular expression
NoParam == "<none>"
InstTokens == {"a", "C", "ALL"}
Callbacks == {"cb"}

VARIABLES
    \* shared
    scraped_data,        \* _scraped_data: name -> reading or ""
    scraped_data_lock,   \* owner of _scraped_data_lock, or None
    \* WebScraper threads
    pc,                  \* position of each scraper in run()/wait()
    running,             \* WebScraper._running
    previously_failed,   \* WebScraper._previously_failed
    tries_since_logged,  \* WebScraper._tries_since_logged
    temp_data,           \* run(): temp_data
    seconds,             \* wait(): seconds
    tick,                \* wait(): i
    notice,              \* what the scraper's latest step wrote to the log
    \* main thread
    mainPc,
    mainIdx,             \* index in web_scrapers of the current for loop
    \* request handler threads
    hpc,                 \* position of each handler in do_GET
    req,                 \* the request: [callback, inst]
    todo,                \* keys the liveness loop has still to visit
    ans,                 \* the dictionary `active` being built
    resp,                \* the response sent: [status, body]
    \* history (not program state)
    snap,                \* _scraped_data when the handler took the lock
    lastFetch,           \* result of the scraper's last completed fetch
    runPos,              \* (failures so far in the scraper's current run
                         \*  of consecutive failures - 1) % RETRIES_BETWEEN_LOGS
    stopAt               \* where the scraper was when its flag was cleared

pollerVars == <<pc, running, previously_failed, tries_since_logged, temp_data,
                seconds, tick, notice>>
mainVars == <<mainPc, mainIdx>>
handlerVars == <<hpc, req, todo, ans, resp, snap>>
histVars == <<lastFetch, runPos, stopAt>>
vars == <<scraped_data, scraped_data_lock, pollerVars, mainVars, handlerVars,
          histVars>>

EmptyDict == [k \in {} |-> ""]
NoResp == [status |-> 0, body |-> <<>>, error |-> None]
NoReq == [callback |-> NoParam, inst |-> NoParam]

\* dict item assignment d[k] = v
DictSet(d, k, v) == [x \in (DOMAIN d) \cup {k} |-> IF x = k THEN v ELSE d[x]]

\* self._tries_since_logged += 1.  The Python int is unbounded and is only
\* ever incremented, reset to 0 and compared with >= RETRIES_BETWEEN_LOGS;
\* the model stops counting at RETRIES_BETWEEN_LOGS, which keeps the outcome
\* of every comparison.
Incr(n) == IF n < RETRIES_BETWEEN_LOGS THEN n + 1 ELSE n

Stopped(p) == pc[p] = "Stopped"
InWait(p) == pc[p] \in {"wait_check", "sleeping"}
StopRequested(p) == ~running[p]

\* the part of run() a scraper is in
Where(p) ==
    IF InWait(p) THEN "wait"
    ELSE IF pc[p] \in {"try", "fetching"} THEN "fetch"
    ELSE IF Stopped(p) THEN "stopped"
    ELSE "other"

Init ==
    /\ scraped_data = EmptyDict
    /\ scraped_data_lock = None
    /\ pc = [p \in Insts |-> "while"]
    /\ running = [p \in Insts |-> TRUE]
    /\ previously_failed = [p \in Insts |-> FALSE]
    /\ tries_since_logged = [p \in Insts |-> 0]
    /\ temp_data = [p \in Insts |-> None]
    /\ seconds = [p \in Insts |-> 0]
    /\ tick = [p \in Insts |-> 0]
    /\ notice = [p \in Insts |-> "none"]
    /\ mainPc = "serving"
    /\ mainIdx = 0
    /\ hpc = [h \in Handlers |-> "idle"]
    /\ req = [h \in Handlers |-> NoReq]
    /\ todo = [h \in Handlers |-> {}]
    /\ ans = [h \in Handlers |-> EmptyDict]
    /\ resp = [h \in Handlers |-> NoResp]
    /\ snap = [h \in Handlers |-> EmptyDict]
    /\ lastFetch = [p \in Insts |-> "none"]
    /\ runPos = [p \in Insts |-> 0]
    /\ stopAt = [p \in Insts |-> "none"]

(***************************************************************************)
(* WebScraper.run and WebScraper.wait                                      *)
(***************************************************************************)
PollerFrame == UNCHANGED <<mainVars, handlerVars, stopAt>>

\* the step writes nothing to the log
Quiet(p) == notice' = [notice EXCEPT ![p] = "none"]

\* `while self._running:` without the test
WhileCheck_Forever(p) ==
    /\ pc[p] = "while"
    /\ pc' = [pc EXCEPT ![p] = "try"]
    /\ UNCHANGED <<scraped_data, scraped_data_lock, running, previously_failed,
                   tries_since_logged, temp_data, seconds, tick, lastFetch, runPos>>
    /\ Quiet(p)
    /\ PollerFrame

\* a scraper that stops removes its entry
WhileCheck_ClearEntry(p) ==
    /\ pc[p] = "while"
    /\ pc' = [pc EXCEPT ![p] = IF running[p] THEN "try" ELSE "Stopped"]
    /\ scraped_data' = IF running[p] THEN scraped_data
                       ELSE [k \in (DOMAIN scraped_data) \ {p} |-> scraped_data[k]]
    /\ UNCHANGED <<scraped_data_lock, running, previously_failed,
                   tries_since_logged, temp_data, seconds, tick, lastFetch, runPos>>
    /\ Quiet(p)
    /\ PollerFrame

\* webserver.py:171  while self._running:
WhileCheck(p) ==
    /\ pc[p] = "while"
    /\ pc' = [pc EXCEPT ![p] = IF running[p] THEN "try" ELSE "Stopped"]
    /\ UNCHANGED <<scraped_data, scraped_data_lock, running, previously_failed,
                   tries_since_logged, temp_data, seconds, tick, lastFetch, runPos>>
    /\ Quiet(p)
    /\ PollerFrame

\* webserver.py:173-174  the counter is incremented and scrape_webpage called
BeginFetch(p) ==
    /\ pc[p] = "try"
    /\ tries_since_logged' = [tries_since_logged EXCEPT ![p] = Incr(@)]
    /\ Quiet(p)
    /\ pc' = [pc EXCEPT ![p] = "fetching"]
    /\ UNCHANGED <<scraped_data, scraped_data_lock, running, previously_failed,
                   temp_data, seconds, tick, lastFetch, runPos>>
    /\ PollerFrame

\* a reading that arrives after the flag was cleared is dropped and the
\* thread ends
FetchOk_DropIfStopped(p, r) ==
    /\ pc[p] = "fetching"
    /\ temp_data' = [temp_data EXCEPT ![p] = IF running[p] THEN r ELSE None]
    /\ pc' = [pc EXCEPT ![p] = IF running[p] THEN "store" ELSE "Stopped"]
    /\ lastFetch' = [lastFetch EXCEPT ![p] = r]
    /\ runPos' = [runPos EXCEPT ![p] = 0]
    /\ UNCHANGED <<scraped_data, scraped_data_lock, running, previously_failed,
                   tries_since_logged, seconds, tick>>
    /\ Quiet(p)
    /\ PollerFrame

\* webserver.py:174  scrape_webpage returns a reading
FetchOk(p, r) ==
    /\ pc[p] = "fetching"
    /\ temp_data' = [temp_data EXCEPT ![p] = r]
    /\ pc' = [pc EXCEPT ![p] = "store"]
    /\ lastFetch' = [lastFetch EXCEPT ![p] = r]
    /\ runPos' = [runPos EXCEPT ![p] = 0]
    /\ UNCHANGED <<scraped_data, scraped_data_lock, running, previously_failed,
                   tries_since_logged, seconds, tick>>
    /\ Quiet(p)
    /\ PollerFrame

\* the exception of scrape_webpage is not caught and ends the thread
FetchFail_Fatal(p) ==
    /\ pc[p] = "fetching"
    /\ pc' = [pc EXCEPT ![p] = "Stopped"]
    /\ runPos' = [runPos EXCEPT ![p] =
                     IF lastFetch[p] = "fail"
                     THEN (@ + 1) % RETRIES_BETWEEN_LOGS ELSE 0]
    /\ lastFetch' = [lastFetch EXCEPT ![p] = "fail"]
    /\ UNCHANGED <<scraped_data, scraped_data_lock, running, previously_failed,
                   tries_since_logged, temp_data, seconds, tick>>
    /\ Quiet(p)
    /\ PollerFrame

\* webserver.py:174,181  scrape_webpage raises (get_webpage.py:65,89,236)
FetchFail(p) ==
    /\ pc[p] = "fetching"
    /\ pc' = [pc EXCEPT ![p] = "except"]
    /\ runPos' = [runPos EXCEPT ![p] =
                     IF lastFetch[p] = "fail"
                     THEN (@ + 1) % RETRIES_BETWEEN_LOGS ELSE 0]
    /\ lastFetch' = [lastFetch EXCEPT ![p] = "fail"]
    /\ UNCHANGED <<scraped_data, scraped_data_lock, running, previously_failed,
                   tries_since_logged, temp_data, seconds, tick>>
    /\ Quiet(p)
    /\ PollerFrame

\* webserver.py:175  with _scraped_data_lock: (acquire)
StoreAcquire(p) ==
    /\ pc[p] = "store"
    /\ scraped_data_lock = None
    /\ scraped_data_lock' = p
    /\ pc' = [pc EXCEPT ![p] = "store_locked"]
    /\ UNCHANGED <<scraped_data, running, previously_failed, tries_since_logged,
                   temp_data, seconds, tick, lastFetch, runPos>>
    /\ Quiet(p)
    /\ PollerFrame

\* the assignment without the release of the lock
StoreWrite_KeepLock(p) ==
    /\ pc[p] = "store_locked"
    /\ scraped_data' = DictSet(scraped_data, p, temp_data[p])
    /\ pc' = [pc EXCEPT ![p] = "stored"]
    /\ UNCHANGED <<scraped_data_lock, running, previously_failed,
                   tries_since_logged, temp_data, seconds, tick, lastFetch, runPos>>
    /\ Quiet(p)
    /\ PollerFrame

\* webserver.py:176  _scraped_data[self._name] = temp_data, and the release
StoreWrite(p) ==
    /\ pc[p] = "store_locked"
    /\ scraped_data' = DictSet(scraped_data, p, temp_data[p])
    /\ scraped_data_lock' = None
    /\ pc' = [pc EXCEPT ![p] = "stored"]
    /\ UNCHANGED <<running, previously_failed, tries_since_logged, temp_data,
                   seconds, tick, lastFetch, runPos>>
    /\ Quiet(p)
    /\ PollerFrame

\* the flag is left as it is after a successful poll
AfterStore_KeepFlag(p) ==
    /\ pc[p] = "stored"
    /\ notice' = [notice EXCEPT ![p] =
                     IF previously_failed[p] THEN "reconnected" ELSE "none"]
    /\ seconds' = [seconds EXCEPT ![p] = WAIT_BETWEEN_UPDATES]
    /\ tick' = [tick EXCEPT ![p] = 0]
    /\ temp_data' = [temp_data EXCEPT ![p] = None]
    /\ pc' = [pc EXCEPT ![p] = "wait_check"]
    /\ UNCHANGED <<scraped_data, scraped_data_lock, running, previously_failed,
                   tries_since_logged, lastFetch, runPos>>
    /\ PollerFrame

\* the counter is set to 0 after a successful poll
AfterStore_ResetCounter(p) ==
    /\ pc[p] = "stored"
    /\ notice' = [notice EXCEPT ![p] =
                     IF previously_failed[p] THEN "reconnected" ELSE "none"]
    /\ previously_failed' = [previously_failed EXCEPT ![p] = FALSE]
    /\ tries_since_logged' = [tries_since_logged EXCEPT ![p] = 0]
    /\ seconds' = [seconds EXCEPT ![p] = WAIT_BETWEEN_UPDATES]
    /\ tick' = [tick EXCEPT ![p] = 0]
    /\ temp_data' = [temp_data EXCEPT ![p] = None]
    /\ pc' = [pc EXCEPT ![p] = "wait_check"]
    /\ UNCHANGED <<scraped_data, scraped_data_lock, running, lastFetch, runPos>>
    /\ PollerFrame

\* webserver.py:177-180  the reconnected notice, the flag, wait(3) is called
AfterStore(p) ==
    /\ pc[p] = "stored"
    /\ notice' = [notice EXCEPT ![p] =
                     IF previously_failed[p] THEN "reconnected" ELSE "none"]
    /\ previously_failed' = [previously_failed EXCEPT ![p] = FALSE]
    /\ seconds' = [seconds EXCEPT ![p] = WAIT_BETWEEN_UPDATES]
    /\ tick' = [tick EXCEPT ![p] = 0]
    /\ temp_data' = [temp_data EXCEPT ![p] = None]
    /\ pc' = [pc EXCEPT ![p] = "wait_check"]
    /\ UNCHANGED <<scraped_data, scraped_data_lock, running,
                   tries_since_logged, lastFetch, runPos>>
    /\ PollerFrame

\* the notice without the reset of the counter
ExceptLog_NoReset(p) ==
    /\ pc[p] = "except"
    /\ IF ~previously_failed[p] \/ tries_since_logged[p] >= RETRIES_BETWEEN_LOGS
       THEN /\ notice' = [notice EXCEPT ![p] = "failed"]
            /\ previously_failed' = [previously_failed EXCEPT ![p] = TRUE]
            /\ UNCHANGED tries_since_logged
       ELSE /\ Quiet(p)
            /\ UNCHANGED <<previously_failed, tries_since_logged>>
    /\ pc' = [pc EXCEPT ![p] = "fail_store"]
    /\ UNCHANGED <<scraped_data, scraped_data_lock, running, temp_data,
                   seconds, tick, lastFetch, runPos>>
    /\ PollerFrame

\* the failure notice without the assignment of the flag
ExceptLog_NoFlag(p) ==
    /\ pc[p] = "except"
    /\ IF ~previously_failed[p] \/ tries_since_logged[p] >= RETRIES_BETWEEN_LOGS
       THEN /\ notice' = [notice EXCEPT ![p] = "failed"]
            /\ tries_since_logged' = [tries_since_logged EXCEPT ![p] = 0]
            /\ UNCHANGED previously_failed
       ELSE /\ Quiet(p)
            /\ UNCHANGED <<previously_failed, tries_since_logged>>
    /\ pc' = [pc EXCEPT ![p] = "fail_store"]
    /\ UNCHANGED <<scraped_data, scraped_data_lock, running, temp_data,
                   seconds, tick, lastFetch, runPos>>
    /\ PollerFrame

\* the flag is set on the class, that is for every scraper
ExceptLog_ClassFlag(p) ==
    /\ pc[p] = "except"
    /\ IF ~previously_failed[p] \/ tries_since_logged[p] >= RETRIES_BETWEEN_LOGS
       THEN /\ notice' = [notice EXCEPT ![p] = "failed"]
            /\ previously_failed' = [q \in Insts |-> TRUE]
            /\ tries_since_logged' = [tries_since_logged EXCEPT ![p] = 0]
       ELSE /\ Quiet(p)
            /\ UNCHANGED <<previously_failed, tries_since_logged>>
    /\ pc' = [pc EXCEPT ![p] = "fail_store"]
    /\ UNCHANGED <<scraped_data, scraped_data_lock, running, temp_data,
                   seconds, tick, lastFetch, runPos>>
    /\ PollerFrame

\* webserver.py:182-186  the throttled failure notice
ExceptLog(p) ==
    /\ pc[p] = "except"
    /\ IF ~previously_failed[p] \/ tries_since_logged[p] >= RETRIES_BETWEEN_LOGS
       THEN /\ notice' = [notice EXCEPT ![p] = "failed"]
            /\ previously_failed' = [previously_failed EXCEPT ![p] = TRUE]
            /\ tries_since_logged' = [tries_since_logged EXCEPT ![p] = 0]
       ELSE /\ Quiet(p)
            /\ UNCHANGED <<previously_failed, tries_since_logged>>
    /\ pc' = [pc EXCEPT ![p] = "fail_store"]
    /\ UNCHANGED <<scraped_data, scraped_data_lock, running, temp_data,
                   seconds, tick, lastFetch, runPos>>
    /\ PollerFrame

\* webserver.py:187  with _scraped_data_lock: (acquire)
FailAcquire(p) ==
    /\ pc[p] = "fail_store"
    /\ scraped_data_lock = None
    /\ scraped_data_lock' = p
    /\ pc' = [pc EXCEPT ![p] = "fail_locked"]
    /\ UNCHANGED <<scraped_data, running, previously_failed, tries_since_logged,
                   temp_data, seconds, tick, lastFetch, runPos>>
    /\ Quiet(p)
    /\ PollerFrame

\* the wait after a failed poll is the one of a successful poll
FailWrite_ShortWait(p) ==
    /\ pc[p] = "fail_locked"
    /\ scraped_data' = DictSet(scraped_data, p, Unavailable)
    /\ scraped_data_lock' = None
    /\ seconds' = [seconds EXCEPT ![p] = WAIT_BETWEEN_UPDATES]
    /\ tick' = [tick EXCEPT ![p] = 0]
    /\ pc' = [pc EXCEPT ![p] = "wait_check"]
    /\ UNCHANGED <<running, previously_failed, tries_since_logged, temp_data,
                   lastFetch, runPos>>
    /\ Quiet(p)
    /\ PollerFrame

\* the failure branch without the assignment of ""
FailWrite_KeepEntry(p) ==
    /\ pc[p] = "fail_locked"
    /\ scraped_data_lock' = None
    /\ seconds' = [seconds EXCEPT ![p] = WAIT_BETWEEN_FAILED_UPDATES]
    /\ tick' = [tick EXCEPT ![p] = 0]
    /\ pc' = [pc EXCEPT ![p] = "wait_check"]
    /\ UNCHANGED <<scraped_data, running, previously_failed, tries_since_logged,
                   temp_data, lastFetch, runPos>>
    /\ Quiet(p)
    /\ PollerFrame

\* webserver.py:188-189  _scraped_data[self._name] = "", the release, and
\* wait(60) is called
FailWrite(p) ==
    /\ pc[p] = "fail_locked"
    /\ scraped_data' = DictSet(scraped_data, p, Unavailable)
    /\ scraped_data_lock' = None
    /\ seconds' = [seconds EXCEPT ![p] = WAIT_BETWEEN_FAILED_UPDATES]
    /\ tick' = [tick EXCEPT ![p] = 0]
    /\ pc' = [pc EXCEPT ![p] = "wait_check"]
    /\ UNCHANGED <<running, previously_failed, tries_since_logged, temp_data,
                   lastFetch, runPos>>
    /\ Quiet(p)
    /\ PollerFrame

\* the wait loop without the test of the flag
WaitCheck_NoFlag(p) ==
    /\ pc[p] = "wait_check"
    /\ IF tick[p] >= seconds[p]
       THEN /\ pc' = [pc EXCEPT ![p] = "while"]
            /\ seconds' = [seconds EXCEPT ![p] = 0]
            /\ tick' = [tick EXCEPT ![p] = 0]
       ELSE /\ pc' = [pc EXCEPT ![p] = "sleeping"]
            /\ UNCHANGED <<seconds, tick>>
    /\ UNCHANGED <<scraped_data, scraped_data_lock, running, previously_failed,
                   tries_since_logged, temp_data, lastFetch, runPos>>
    /\ Quiet(p)
    /\ PollerFrame

\* webserver.py:147-149  for i in range(seconds): if not self._running: return
WaitCheck(p) ==
    /\ pc[p] = "wait_check"
    /\ IF tick[p] >= seconds[p] \/ ~running[p]
       THEN /\ pc' = [pc EXCEPT ![p] = "while"]
            /\ seconds' = [seconds EXCEPT ![p] = 0]
            /\ tick' = [tick EXCEPT ![p] = 0]
       ELSE /\ pc' = [pc EXCEPT ![p] = "sleeping"]
            /\ UNCHANGED <<seconds, tick>>
    /\ UNCHANGED <<scraped_data, scraped_data_lock, running, previously_failed,
                   tries_since_logged, temp_data, lastFetch, runPos>>
    /\ Quiet(p)
    /\ PollerFrame

\* webserver.py:150  sleep(1) returns
SleepDone(p) ==
    /\ pc[p] = "sleeping"
    /\ tick' = [tick EXCEPT ![p] = @ + 1]
    /\ pc' = [pc EXCEPT ![p] = "wait_check"]
    /\ UNCHANGED <<scraped_data, scraped_data_lock, running, previously_failed,
                   tries_since_logged, temp_data, seconds, lastFetch,
                   runPos>>
    /\ Quiet(p)
    /\ PollerFrame

(***************************************************************************)
(* The main thread (webserver.py:191-209)                                  *)
(***************************************************************************)
MainFrame == UNCHANGED <<scraped_data, scraped_data_lock, pc, previously_failed,
                         tries_since_logged, temp_data, seconds, tick, notice,
                         lastFetch, runPos>>

HandlerAlive(h) == hpc[h] \notin {"idle", "done"}

\* threading.active_count(): the main thread and every thread still running
active_count ==
    1 + Cardinality({p \in Insts : ~Stopped(p)})
      + Cardinality({h \in Handlers : HandlerAlive(h)})

\* webserver.py:203-205  KeyboardInterrupt ends serve_forever.  What the
\* handler threads that have ended had answered is history, and is forgotten
\* here.
KeyboardInterrupt ==
    /\ mainPc = "serving"
    /\ mainPc' = "signalling"
    /\ mainIdx' = 1
    /\ hpc' = [h \in Handlers |-> IF HandlerAlive(h) THEN hpc[h] ELSE "idle"]
    /\ req' = [h \in Handlers |-> IF HandlerAlive(h) THEN req[h] ELSE NoReq]
    /\ resp' = [h \in Handlers |-> IF HandlerAlive(h) THEN resp[h] ELSE NoResp]
    /\ UNCHANGED <<running, stopAt, todo, ans, snap>>
    /\ MainFrame

\* the loop that leaves out the last scraper of the list
MainSignal_SkipLast ==
    /\ mainPc = "signalling"
    /\ mainIdx <= Len(web_scrapers)
    /\ IF mainIdx < Len(web_scrapers)
       THEN /\ running' = [running EXCEPT ![web_scrapers[mainIdx]] = FALSE]
            /\ stopAt' = [stopAt EXCEPT ![web_scrapers[mainIdx]] =
                             Where(web_scrapers[mainIdx])]
       ELSE UNCHANGED <<running, stopAt>>
    /\ mainIdx' = mainIdx + 1
    /\ UNCHANGED <<mainPc, handlerVars>>
    /\ MainFrame

\* webserver.py:205-206  for w in web_scrapers: w._running = False
MainSignal ==
    /\ mainPc = "signalling"
    /\ mainIdx <= Len(web_scrapers)
    /\ running' = [running EXCEPT ![web_scrapers[mainIdx]] = FALSE]
    /\ stopAt' = [stopAt EXCEPT ![web_scrapers[mainIdx]] =
                     Where(web_scrapers[mainIdx])]
    /\ mainIdx' = mainIdx + 1
    /\ UNCHANGED <<mainPc, handlerVars>>
    /\ MainFrame

\* webserver.py:207  while active_count() > 1:
MainActiveCount ==
    /\ mainPc \in {"signalling", "joining"}
    /\ mainIdx > Len(web_scrapers)
    /\ IF active_count > 1
       THEN /\ mainPc' = "joining"
            /\ mainIdx' = 1
       ELSE /\ mainPc' = "exited"
            /\ mainIdx' = 0
    /\ UNCHANGED <<running, stopAt, handlerVars>>
    /\ MainFrame

\* webserver.py:208-209  for w in web_scrapers: w.join()
MainJoin ==
    /\ mainPc = "joining"
    /\ mainIdx <= Len(web_scrapers)
    /\ Stopped(web_scrapers[mainIdx])
    /\ mainIdx' = mainIdx + 1
    /\ UNCHANGED <<mainPc, running, stopAt, handlerVars>>
    /\ MainFrame

(***************************************************************************)
(* MyHandler.do_GET (webserver.py:74-118)                                  *)
(***************************************************************************)
HandlerFrame == UNCHANGED <<scraped_data, pollerVars, mainVars, histVars>>

Requests ==
    {[callback |-> c, inst |-> i] : c \in Callbacks, i \in InstTokens}
    \cup {[callback |-> NoParam, inst |-> "a"],
          [callback |-> "cb", inst |-> NoParam]}

\* the Instrument parameter is used as it was sent
upper_AsSent(t) == t

\* str.upper() on the tokens of the model
upper(t) == IF t = "a" THEN "A" ELSE t

\* json.dumps: the JSON text of a value
dumps(x) == <<"json", x>>

\* json.dumps raises on a value it cannot encode
Serializable(r) == r # "RBad"

\* "{}({})".format(callback, ans)
format(callback, a) == <<callback, a>>

\* webserver.py:112-118  the status do_GET sends for an exception
StatusFor(exc) == IF exc = "ValueError" THEN 400 ELSE 404

\* every key is reported as running
active_entry_AlwaysTrue(data, key) == TRUE

\* webserver.py:42-55  one pass of `for key in data`
active_entry(data, key) == data[key] # ""

\* webserver.py:42-55 as a whole, on one dictionary
ibex_running(data) == [k \in DOMAIN data |-> active_entry(data, k)]

inst_uppercase(h) == upper(req[h].inst)

\* webserver.py:100-118  what do_GET answers to request r when it runs from
\* the acquire to the release on the one dictionary `data`
Answer(data, r) ==
    LET inst == upper(r.inst)
    IN IF inst = "ALL"
       THEN [status |-> 200,
             body |-> format(r.callback, dumps(ibex_running(data))),
             error |-> None]
       ELSE IF inst \notin DOMAIN data
       THEN [status |-> StatusFor("ValueError"), body |-> <<>>,
             error |-> "not known"]
       ELSE IF data[inst] = ""
       THEN [status |-> StatusFor("ValueError"), body |-> <<>>,
             error |-> "Instrument has become unavailable"]
       ELSE IF ~Serializable(data[inst])
       THEN [status |-> StatusFor("ValueError"), body |-> <<>>,
             error |-> "Unable to convert instrument data to JSON"]
       ELSE [status |-> 200, body |-> format(r.callback, dumps(data[inst])),
             error |-> None]

\* the detail request for instrument p
DetailRequest(p) == [callback |-> "cb", inst |-> p]

\* the handler thread ends with the response [status, body] sent; nothing
\* of the request is kept but the response
Reply(h, status, body, error) ==
    /\ resp' = [resp EXCEPT ![h] =
                   [status |-> status, body |-> body, error |-> error]]
    /\ hpc' = [hpc EXCEPT ![h] = "done"]
    /\ todo' = [todo EXCEPT ![h] = {}]
    /\ ans' = [ans EXCEPT ![h] = EmptyDict]
    /\ snap' = [snap EXCEPT ![h] = EmptyDict]

\* webserver.py:112-118  an exception raised in do_GET: its message is
\* logged and the status alone is sent
Raise(h, exc, message) == Reply(h, StatusFor(exc), <<>>, message)

\* webserver.py:106-111  the response is formatted and sent with status 200
Respond(h, a) == Reply(h, 200, format(req[h].callback, a), None)

\* webserver.py:88-89  a parameter do_GET searches the path for is missing
BadRequest(r) == r.callback = NoParam \/ r.inst = NoParam

\* do_GET without the test of the two parameters
HReceive_NoParamTest(h, r) ==
    /\ mainPc = "serving"
    /\ ~HandlerAlive(h)
    /\ req' = [req EXCEPT ![h] = r]
    /\ hpc' = [hpc EXCEPT ![h] = "acquire"]
    /\ resp' = [resp EXCEPT ![h] = NoResp]
    /\ UNCHANGED <<todo, ans, snap>>
    /\ UNCHANGED scraped_data_lock
    /\ HandlerFrame

\* a request arrives, ThreadingMixIn starts a thread for it, and do_GET
\* searches the path for the two parameters (webserver.py:83-98)
HReceive(h, r) ==
    /\ mainPc = "serving"
    /\ ~HandlerAlive(h)
    /\ req' = [req EXCEPT ![h] = r]
    /\ IF BadRequest(r)
       THEN Raise(h, "ValueError", "No instrument specified")
       ELSE /\ hpc' = [hpc EXCEPT ![h] = "acquire"]
            /\ resp' = [resp EXCEPT ![h] = NoResp]
            /\ UNCHANGED <<todo, ans, snap>>
    /\ UNCHANGED scraped_data_lock
    /\ HandlerFrame

\* the handler reads without taking the lock
HAcquire_NoLock(h) ==
    /\ hpc[h] = "acquire"
    /\ snap' = [snap EXCEPT ![h] = scraped_data]
    /\ IF inst_uppercase(h) = "ALL"
       THEN /\ hpc' = [hpc EXCEPT ![h] = "all_loop"]
            /\ todo' = [todo EXCEPT ![h] = DOMAIN scraped_data]
            /\ ans' = [ans EXCEPT ![h] = EmptyDict]
       ELSE /\ hpc' = [hpc EXCEPT ![h] = "detail_known"]
            /\ UNCHANGED <<todo, ans>>
    /\ UNCHANGED <<scraped_data_lock, req, resp>>
    /\ HandlerFrame

\* webserver.py:100-101  with _scraped_data_lock: (acquire) and the branch
HAcquire(h) ==
    /\ hpc[h] = "acquire"
    /\ scraped_data_lock = None
    /\ scraped_data_lock' = h
    /\ snap' = [snap EXCEPT ![h] = scraped_data]
    /\ IF inst_uppercase(h) = "ALL"
       THEN /\ hpc' = [hpc EXCEPT ![h] = "all_loop"]
            /\ todo' = [todo EXCEPT ![h] = DOMAIN scraped_data]
            /\ ans' = [ans EXCEPT ![h] = EmptyDict]
       ELSE /\ hpc' = [hpc EXCEPT ![h] = "detail_known"]
            /\ UNCHANGED <<todo, ans>>
    /\ UNCHANGED <<req, resp>>
    /\ HandlerFrame

\* webserver.py:50-54  one iteration of the loop over the keys
HAllStep(h) ==
    /\ hpc[h] = "all_loop"
    /\ todo[h] # {}
    /\ LET key == CHOOSE k \in todo[h] : TRUE
       IN /\ ans' = [ans EXCEPT ![h] =
                        DictSet(@, key, active_entry(scraped_data, key))]
          /\ todo' = [todo EXCEPT ![h] = @ \ {key}]
    /\ UNCHANGED <<scraped_data_lock, hpc, req, resp, snap>>
    /\ HandlerFrame

\* webserver.py:55,102,106-111  return str(json.dumps(active)); the lock is
\* released and the response sent
HAllDone(h) ==
    /\ hpc[h] = "all_loop"
    /\ todo[h] = {}
    /\ Respond(h, dumps(ans[h]))
    /\ scraped_data_lock' = None
    /\ UNCHANGED req
    /\ HandlerFrame

\* the lock is released by hand, and not when the instrument is not known
HDetailKnown_KeepLock(h) ==
    /\ hpc[h] = "detail_known"
    /\ IF inst_uppercase(h) \notin DOMAIN scraped_data
       THEN /\ Raise(h, "ValueError", "not known")
            /\ UNCHANGED scraped_data_lock
       ELSE /\ hpc' = [hpc EXCEPT ![h] = "detail_avail"]
            /\ UNCHANGED <<resp, scraped_data_lock, todo, ans, snap>>
    /\ UNCHANGED req
    /\ HandlerFrame

\* webserver.py:65-66  if instrument not in data.keys(): raise ValueError
HDetailKnown(h) ==
    /\ hpc[h] = "detail_known"
    /\ IF inst_uppercase(h) \notin DOMAIN scraped_data
       THEN /\ Raise(h, "ValueError", "not known")
            /\ scraped_data_lock' = None
       ELSE /\ hpc' = [hpc EXCEPT ![h] = "detail_avail"]
            /\ UNCHANGED <<resp, scraped_data_lock, todo, ans, snap>>
    /\ UNCHANGED req
    /\ HandlerFrame

\* the detail query without the test for ""
HDetailAvail_NoTest(h) ==
    /\ hpc[h] = "detail_avail"
    /\ hpc' = [hpc EXCEPT ![h] = "detail_dumps"]
    /\ UNCHANGED <<resp, scraped_data_lock, todo, ans, snap>>
    /\ UNCHANGED req
    /\ HandlerFrame

\* webserver.py:67-68  if data[instrument] == "": raise ValueError
HDetailAvail(h) ==
    /\ hpc[h] = "detail_avail"
    /\ IF scraped_data[inst_uppercase(h)] = ""
       THEN /\ Raise(h, "ValueError", "Instrument has become unavailable")
            /\ scraped_data_lock' = None
       ELSE /\ hpc' = [hpc EXCEPT ![h] = "detail_dumps"]
            /\ UNCHANGED <<resp, scraped_data_lock, todo, ans, snap>>
    /\ UNCHANGED req
    /\ HandlerFrame

\* json.dumps' own exception reaches do_GET as it is
HDetailDumps_NoWrap(h) ==
    /\ hpc[h] = "detail_dumps"
    /\ IF Serializable(scraped_data[inst_uppercase(h)])
       THEN Respond(h, dumps(scraped_data[inst_uppercase(h)]))
       ELSE Raise(h, "TypeError", "is not JSON serializable")
    /\ scraped_data_lock' = None
    /\ UNCHANGED req
    /\ HandlerFrame

\* webserver.py:69-72,104,106-111  json.dumps(_scraped_data[instrument]); its
\* exception is raised again as a ValueError; the lock is released either
\* way and the response sent
HDetailDumps(h) ==
    /\ hpc[h] = "detail_dumps"
    /\ IF Serializable(scraped_data[inst_uppercase(h)])
       THEN Respond(h, dumps(scraped_data[inst_uppercase(h)]))
       ELSE Raise(h, "ValueError", "Unable to convert instrument data to JSON")
    /\ scraped_data_lock' = None
    /\ UNCHANGED req
    /\ HandlerFrame

(***************************************************************************)
(* Specifications                                                          *)
(***************************************************************************)
PollerStep(p) ==
    \/ WhileCheck(p)
    \/ BeginFetch(p)
    \/ StoreAcquire(p)
    \/ StoreWrite(p)
    \/ AfterStore(p)
    \/ ExceptLog(p)
    \/ FailAcquire(p)
    \/ FailWrite(p)
    \/ WaitCheck(p)
    \/ SleepDone(p)

\* the network answers, or the request fails
FetchReturn(p) ==
    \/ \E r \in Readings : FetchOk(p, r)
    \/ FetchFail(p)

MainStep ==
    \/ KeyboardInterrupt
    \/ MainSignal
    \/ MainActiveCount
    \/ MainJoin

HandlerStep(h) ==
    \/ HAcquire(h)
    \/ HAllStep(h)
    \/ HAllDone(h)
    \/ HDetailKnown(h)
    \/ HDetailAvail(h)
    \/ HDetailDumps(h)

HandlerNext ==
    \/ \E h \in Handlers : \E r \in Requests : HReceive(h, r)
    \/ \E h \in Handlers : HandlerStep(h)

PollerNext ==
    \/ \E p \in Insts : PollerStep(p)
    \/ \E p \in Insts : FetchReturn(p)

\* the whole program
Next == PollerNext \/ HandlerNext \/ MainStep

Spec == Init /\ [][Next]_vars

\* the program while it serves: the scrapers and the request handlers, up
\* to the interrupt
ServeNext == PollerNext \/ HandlerNext

ServeSpec == Init /\ [][ServeNext]_vars

\* the program's start and shutdown: the scrapers and the main thread, with
\* no request in flight
StopNext == PollerNext \/ MainStep

StopSpec == Init /\ [][StopNext]_vars

\* the scrapers alone
PollSpec == Init /\ [][PollerNext]_vars

\* the scrapers and the main thread when no host ever answers with a
\* reading: every fetch that returns raises
FailingStep(p) ==
    \/ WhileCheck(p)
    \/ BeginFetch(p)
    \/ ExceptLog(p)
    \/ FailAcquire(p)
    \/ FailWrite(p)
    \/ WaitCheck(p)
    \/ SleepDone(p)

FailingNext ==
    \/ \E p \in Insts : FailingStep(p)
    \/ \E p \in Insts : FetchFail(p)
    \/ MainStep

\* fair scheduling of the threads, and fetches that return (by raising)
FailingSpec ==
    /\ Init /\ [][FailingNext]_vars
    /\ \A p \in Insts : WF_vars(FailingStep(p))
    /\ \A p \in Insts : WF_vars(FetchFail(p))
    /\ WF_vars(MainSignal \/ MainActiveCount \/ MainJoin)

\* Every thread that can take a step of its own code eventually takes it;
\* nothing is assumed of the network (requests.get is called without a
\* timeout, get_webpage.py:61,78) nor of the arrival of the interrupt.
ThreadFairness ==
    /\ \A p \in Insts : WF_vars(PollerStep(p))
    /\ WF_vars(MainSignal \/ MainActiveCount \/ MainJoin)

FairStopSpec == StopSpec /\ ThreadFairness

\* Scheduling of the scrapers while no interrupt arrives.  Every scraper
\* that can take a step eventually takes it, and every fetch returns (with a
\* reading or by raising).  The lock is held for one dictionary assignment,
\* and a scraper that has released it sleeps for seconds before it asks
\* again, so a scraper that asks for the lock whenever it is free gets it:
\* the two acquires of run() are strongly fair.
PollFairness ==
    /\ \A p \in Insts : WF_vars(PollerStep(p))
    /\ \A p \in Insts : SF_vars(StoreAcquire(p) \/ FailAcquire(p))
    /\ \A p \in Insts : WF_vars(FetchReturn(p))

FairPollSpec == PollSpec /\ PollFairness

\* The program while it serves, when the host of instrument A answers every
\* fetch with the reading R1 and the host of instrument B fails every
\* fetch; the requests are the liveness request and the detail requests for
\* the two instruments.
UpDownRequests == {[callback |-> "cb", inst |-> i] : i \in {"a", "B", "ALL"}}

UpDownNext ==
    \/ \E p \in Insts : PollerStep(p)
    \/ FetchOk("A", "R1")
    \/ FetchFail("B")
    \/ \E h \in Handlers : \E r \in UpDownRequests : HReceive(h, r)
    \/ \E h \in Handlers : HandlerStep(h)

\* fair scheduling of the threads, fetches that return, and a lock that is
\* acquired by the scraper that asks for it (see PollFairness)
UpDownSpec ==
    /\ Init /\ [][UpDownNext]_vars
    /\ \A p \in Insts : WF_vars(PollerStep(p))
    /\ \A p \in Insts : SF_vars(StoreAcquire(p) \/ FailAcquire(p))
    /\ WF_vars(FetchOk("A", "R1"))
    /\ WF_vars(FetchFail("B"))
    /\ \A h \in Handlers : WF_vars(HandlerStep(h))

(***************************************************************************)
(* Properties                                                              *)
(***************************************************************************)
Reading_pcs == {"all_loop", "detail_known", "detail_avail", "detail_dumps"}
Detail_pcs == {"detail_known", "detail_avail", "detail_dumps"}

\* the handler ends its request in this step, having read the dictionary
Answers(h) == hpc[h] \in Reading_pcs /\ hpc'[h] = "done"

\* the entry of instrument p is left as it is
EntryUnchanged(p) ==
    /\ (p \in DOMAIN scraped_data') = (p \in DOMAIN scraped_data)
    /\ p \in DOMAIN scraped_data => scraped_data'[p] = scraped_data[p]

\* what the scraper's last completed fetch makes the entry
EntryOf(result) == IF result = "fail" THEN Unavailable ELSE result

\* C1: under every interleaving of the scrapers' writes and the handlers'
\* reads, the response a handler sends (status, body and error) is the one
\* do_GET computes from the single dictionary that existed when the handler
\* took the lock: no entry it read was written in between.
C1_ResponseFromOneSnapshot ==
    [][\A h \in Handlers :
          Answers(h) => resp'[h] = Answer(snap[h], req[h])]_vars

\* a handler has read every entry for a liveness request while a scraper
\* with a fresh result waits for the lock
C1_Witness ==
    \E h \in Handlers : \E p \in Insts :
        /\ hpc[h] = "all_loop"
        /\ todo[h] = {}
        /\ p \in DOMAIN ans[h]
        /\ pc[p] \in {"store", "fail_store"}

\* C2: a scraper owns the lock only between the acquire and the assignment
\* of its own key: never while its fetch is in flight, never in a wait (nor
\* anywhere else in run()).
C2_LockOnlyForAssignment ==
    \A p \in Insts :
        scraped_data_lock = p => pc[p] \in {"store_locked", "fail_locked"}

\* a handler owns the lock and reads while every scraper's fetch is in
\* flight
C2_Witness ==
    \E h \in Handlers :
        /\ scraped_data_lock = h
        /\ \A p \in Insts : pc[p] = "fetching"

\* C3: whenever a scraper is in a wait, or has stopped after a completed
\* fetch, its entry is the result of its last completed fetch (the reading,
\* or "" if it failed), and a detail query on that dictionary answers 200
\* with that reading, or an error when the fetch failed.
C3_EntryIsLastFetch ==
    \A p \in Insts :
        (InWait(p) \/ (Stopped(p) /\ lastFetch[p] # "none")) =>
            /\ p \in DOMAIN scraped_data
            /\ scraped_data[p] = EntryOf(lastFetch[p])
            /\ lastFetch[p] = "fail" =>
                   /\ Answer(scraped_data, DetailRequest(p)).status = 400
                   /\ Answer(scraped_data, DetailRequest(p)).error =
                          "Instrument has become unavailable"
            /\ (lastFetch[p] # "fail" /\ Serializable(lastFetch[p])) =>
                   Answer(scraped_data, DetailRequest(p)) =
                       [status |-> 200,
                        body |-> format("cb", dumps(lastFetch[p])),
                        error |-> None]

\* one scraper waits after a failed fetch, the other has stopped after a
\* successful one
C3_Witness ==
    \E p, q \in Insts :
        /\ InWait(p) /\ lastFetch[p] = "fail" /\ scraped_data[p] = Unavailable
        /\ Stopped(q) /\ lastFetch[q] = "R1" /\ scraped_data[q] = "R1"

\* C4: once every scraper's flag is cleared, every scraper stops, whatever
\* the network does (stated under the fairness of the threads alone).
C4_StopDespiteHungFetch ==
    (\A p \in Insts : StopRequested(p)) ~> (\A p \in Insts : Stopped(p))

\* C5: a scraper whose flag is cleared while it is in a wait begins no
\* further sleep, starts no further fetch, never writes its entry again and
\* stops, with no assumption on the network; and a stopped scraper stays
\* stopped and never writes.
C5_StopInWait ==
    /\ [][\A p \in Insts :
             /\ (StopRequested(p) /\ pc[p] # "sleeping") => pc'[p] # "sleeping"
             /\ stopAt[p] = "wait" =>
                    /\ pc'[p] \in {"wait_check", "sleeping", "while", "Stopped"}
                    /\ EntryUnchanged(p)
             /\ Stopped(p) => (Stopped(p)' /\ EntryUnchanged(p))]_vars
    /\ \A p \in Insts : (stopAt[p] = "wait") ~> Stopped(p)

\* every scraper was in a wait when its flag was cleared, one of them in
\* the wait that follows a failure, and all have stopped
C5_Witness ==
    /\ \A p \in Insts : stopAt[p] = "wait" /\ Stopped(p)
    /\ \E p \in Insts : lastFetch[p] = "fail"

\* C6: when the main thread is past the loop that clears the flags, every
\* scraper's flag is cleared, and when it is past the loop that joins, every
\* scraper has stopped.
C6_StopAllThenJoin ==
    /\ mainPc \in {"joining", "exited"} => \A p \in Insts : StopRequested(p)
    /\ mainPc = "exited" => \A p \in Insts : Stopped(p)

\* the main thread is blocked in join() on a scraper that is still fetching
C6_Witness ==
    /\ mainPc = "joining"
    /\ mainIdx \in 1..Len(web_scrapers)
    /\ pc[web_scrapers[mainIdx]] = "fetching"

\* C7: when every fetch fails and returns, a scraper whose flag is cleared,
\* wherever it is, stops.
C7_FailingScraperStops ==
    \A p \in Insts : StopRequested(p) ~> Stopped(p)

\* a scraper that has only ever failed has stopped, its flag cleared during
\* a fetch
C7_Witness ==
    \E p \in Insts :
        Stopped(p) /\ stopAt[p] = "fetch" /\ lastFetch[p] = "fail"

\* C8: a failed poll writes the failure notice exactly when it is failure
\* number 1, 1+N, 1+2N, ... of its run of consecutive failures
\* (N = RETRIES_BETWEEN_LOGS).
C8_NoticeEveryNth ==
    \A p \in Insts :
        pc[p] = "fail_store" => (notice[p] = "failed" <=> runPos[p] = 0)

\* failure number N of a run: the last one before the notice is repeated
\* goes without a notice
C8_Witness ==
    \E p \in Insts :
        /\ pc[p] = "fail_store"
        /\ notice[p] = "none"
        /\ runPos[p] = RETRIES_BETWEEN_LOGS - 1

\* C9: a detail request is decided on the dictionary the handler locked:
\* no entry, the "not known" error; entry "", the "unavailable" error; a
\* reading (that json.dumps accepts), status 200 and callback(json); and no
\* 200 response carries the JSON of the "" entry.
C9_DetailCases ==
    [][\A h \in Handlers :
          (Answers(h) /\ hpc[h] \in Detail_pcs) =>
              LET inst == inst_uppercase(h)
                  data == snap[h]
              IN /\ inst \notin DOMAIN data =>
                       /\ resp'[h].status = 400
                       /\ resp'[h].error = "not known"
                 /\ (inst \in DOMAIN data /\ data[inst] = Unavailable) =>
                       /\ resp'[h].status = 400
                       /\ resp'[h].error = "Instrument has become unavailable"
                 /\ (inst \in DOMAIN data /\ data[inst] # Unavailable
                                          /\ Serializable(data[inst])) =>
                       /\ resp'[h].status = 200
                       /\ resp'[h].body =
                              format(req[h].callback, dumps(data[inst]))
                 /\ resp'[h].status = 200 =>
                       resp'[h].body #
                           format(req[h].callback, dumps(Unavailable))]_vars

\* a detail request for an instrument whose last poll failed was refused
C9_Witness ==
    \E h \in Handlers :
        /\ hpc[h] = "done"
        /\ inst_uppercase(h) \in DOMAIN scraped_data
        /\ resp[h].status = 400
        /\ resp[h].error = "Instrument has become unavailable"

\* C10 as stated: a reading json.dumps rejects is answered with status 404.
C10_SerializationFailureIs404 ==
    [][\A h \in Handlers :
          (Answers(h) /\ hpc[h] = "detail_dumps"
                      /\ ~Serializable(scraped_data[inst_uppercase(h)])) =>
              resp'[h].status = 404]_vars

\* C10 as the code has it: a reading json.dumps rejects is answered with
\* status 400, like the other errors of a detail request.
C10_SerializationFailureIs400 ==
    [][\A h \in Handlers :
          (Answers(h) /\ hpc[h] = "detail_dumps"
                      /\ ~Serializable(scraped_data[inst_uppercase(h)])) =>
              resp'[h].status = 400]_vars

\* a detail request for a reading json.dumps rejects was answered
C10_Witness ==
    \E h \in Handlers :
        /\ hpc[h] = "done"
        /\ resp[h].error = "Unable to convert instrument data to JSON"

\* C11: a request whose callback or Instrument parameter is missing is
\* answered with status 400 ("No instrument specified") in the step that
\* receives it: its handler is never at the acquire nor at a read of the
\* dictionary, never owns the lock, and the step leaves the dictionary and
\* the lock as they were.
C11_BadRequestRejectedUntouched ==
    /\ [](\A h \in Handlers :
             (hpc[h] # "idle" /\ BadRequest(req[h])) =>
                 /\ hpc[h] = "done"
                 /\ resp[h] = [status |-> 400, body |-> <<>>,
                               error |-> "No instrument specified"]
                 /\ scraped_data_lock # h)
    /\ [][\A h \in Handlers :
             (BadRequest(req'[h]) /\ <<hpc[h], req[h]>> # <<hpc'[h], req'[h]>>) =>
                 /\ scraped_data' = scraped_data
                 /\ scraped_data_lock' = scraped_data_lock]_vars

\* a request without its Instrument parameter was refused while a scraper
\* owned the lock
C11_Witness ==
    \E h \in Handlers :
        /\ hpc[h] = "done"
        /\ req[h].inst = NoParam
        /\ resp[h].status = 400
        /\ scraped_data_lock \in Insts

\* C12: the response to an Instrument=ALL request is status 200 with the
\* JSON of a dictionary whose keys are exactly the names that have an entry
\* in the dictionary the handler locked (a name without an entry is left
\* out), each with true if and only if its entry is a reading, false if and
\* only if its entry is "".
C12_LivenessSummary ==
    [][\A h \in Handlers :
          (Answers(h) /\ hpc[h] = "all_loop") =>
              /\ resp'[h].status = 200
              /\ \E d \in [DOMAIN snap[h] -> BOOLEAN] :
                     /\ resp'[h].body = format(req[h].callback, dumps(d))
                     /\ \A k \in DOMAIN snap[h] :
                            /\ d[k] <=> snap[h][k] \in Readings
                            /\ ~d[k] <=> snap[h][k] = Unavailable]_vars

\* a liveness request was answered with one instrument running and the
\* other not
C12_Witness ==
    \E h \in Handlers : \E p \in Insts :
        /\ hpc[h] = "done"
        /\ upper(req[h].inst) = "ALL"
        /\ resp[h].status = 200
        /\ resp[h].body = format("cb", dumps([k \in Insts |-> k = p]))

\* the scraper owns the lock and is at the assignment of its entry
Write_pcs == {"store_locked", "fail_locked"}

\* C13: an instrument has no entry (and is in no liveness summary) as long
\* as no fetch of its scraper has returned; its entry appears in the step
\* that ends its first poll, the assignment of the reading or of "", and
\* in no other; every such assignment leaves it with an entry; and an entry
\* once there is there in every later state, also after the scraper has
\* been stopped.
C13_EntryFromFirstPollOn ==
    /\ [](\A p \in Insts :
             /\ lastFetch[p] = "none" =>
                    /\ p \notin DOMAIN scraped_data
                    /\ p \notin DOMAIN ibex_running(scraped_data)
             /\ (InWait(p) \/ (Stopped(p) /\ lastFetch[p] # "none")) =>
                    p \in DOMAIN scraped_data)
    /\ [][\A p \in Insts :
             /\ (pc[p] \in Write_pcs /\ pc'[p] # pc[p]) =>
                    p \in DOMAIN scraped_data'
             /\ p \in DOMAIN scraped_data => p \in DOMAIN scraped_data'
             /\ (p \notin DOMAIN scraped_data /\ p \in DOMAIN scraped_data') =>
                    pc[p] \in Write_pcs]_vars

\* every scraper has stopped, one with the entry of its polls, the other
\* before its first poll and so without an entry
C13_Witness ==
    \E p, q \in Insts :
        /\ Stopped(p) /\ p \in DOMAIN scraped_data
        /\ Stopped(q) /\ q \notin DOMAIN scraped_data

\* the attributes and the locals of the scraper of instrument q are left as
\* they are
RunStateUnchanged(q) ==
    /\ pc'[q] = pc[q]
    /\ running'[q] = running[q]
    /\ previously_failed'[q] = previously_failed[q]
    /\ tries_since_logged'[q] = tries_since_logged[q]
    /\ temp_data'[q] = temp_data[q]
    /\ seconds'[q] = seconds[q]
    /\ tick'[q] = tick[q]
    /\ notice'[q] = notice[q]

\* C14: a step of the scraper of instrument p leaves the entry of every
\* other instrument as it is (there or not, and its value), adds no key but
\* p, never changes a _running flag, and leaves the position, the failure
\* counter, the previously-failed flag, the locals and the log of every
\* other scraper unchanged: whatever p's fetch does, the other scrapers'
\* state is what their own steps made it.
C14_ScraperTouchesOnlyItsOwn ==
    [][\A p \in Insts :
          pc'[p] # pc[p] =>
              /\ \A q \in Insts \ {p} : EntryUnchanged(q) /\ RunStateUnchanged(q)
              /\ DOMAIN scraped_data' \subseteq (DOMAIN scraped_data) \cup {p}
              /\ running' = running]_vars

\* a scraper has just failed for the first time while the other, which has
\* never failed, waits with its reading in the dictionary
C14_Witness ==
    \E p, q \in Insts :
        /\ pc[p] = "fail_store" /\ previously_failed[p]
        /\ InWait(q) /\ ~previously_failed[q] /\ tries_since_logged[q] > 0
        /\ q \in DOMAIN scraped_data /\ scraped_data[q] = "R1"

\* C15: with no stop requested no scraper ever stops, whatever its fetches
\* do (a scraper is stopped only with its flag cleared); every failed fetch
\* is followed by the long wait, and that wait by a new fetch; and every
\* scraper starts a fetch again and again, forever (under fair scheduling,
\* with fetches that return).
C15_FailuresNeverFatal ==
    /\ [](\A p \in Insts : Stopped(p) => StopRequested(p))
    /\ \A p \in Insts :
           (pc[p] = "except") ~>
               (InWait(p) /\ seconds[p] = WAIT_BETWEEN_FAILED_UPDATES)
    /\ \A p \in Insts :
           (InWait(p) /\ lastFetch[p] = "fail") ~> (pc[p] = "fetching")
    /\ \A p \in Insts : []<>(pc[p] = "fetching")

\* a scraper whose last fetches failed, the latest without a notice, is in
\* a fetch again
C15_Witness ==
    \E p \in Insts :
        /\ pc[p] = "fetching"
        /\ lastFetch[p] = "fail"
        /\ runPos[p] = RETRIES_BETWEEN_LOGS - 1
        /\ running[p]

\* the response to request r when A is up with R1 and B is down
UpDownResponse(r) ==
    IF r.inst = "ALL"
    THEN [status |-> 200,
          body |-> format(r.callback, dumps([k \in {"A", "B"} |-> k = "A"])),
          error |-> None]
    ELSE IF r.inst = "a"
    THEN [status |-> 200, body |-> format(r.callback, dumps("R1")),
          error |-> None]
    ELSE [status |-> 400, body |-> <<>>,
          error |-> "Instrument has become unavailable"]

\* the dictionary when A is up with R1 and B is down
UpDownData == [k \in {"A", "B"} |-> IF k = "A" THEN "R1" ELSE ""]

\* C16: when A's host always answers with R1 and B's host always fails, and
\* no stop is requested, then from some point on, forever, the dictionary is
\* {A: R1, B: ""} and it is the dictionary every handler reads; and every
\* request answered from it is answered as follows: the liveness request
\* with {A: true, B: false}, the detail request for A with the JSON of R1,
\* the detail request for B with the "unavailable" error.
C16_UpDownSteadyState ==
    /\ <>[](scraped_data = UpDownData)
    /\ <>[](\A h \in Handlers : hpc[h] \in Reading_pcs => snap[h] = UpDownData)
    /\ [][\A h \in Handlers :
             (Answers(h) /\ snap[h] = UpDownData) =>
                 resp'[h] = UpDownResponse(req[h])]_vars

\* the detail request for B was refused while A's reading and B's "" are in
\* the dictionary and both scrapers are polling again
C16_Witness ==
    \E h \in Handlers :
        /\ hpc[h] = "done"
        /\ req[h].inst = "B"
        /\ resp[h] = UpDownResponse(req[h])
        /\ scraped_data = UpDownData
        /\ \A p \in Insts : pc[p] = "fetching" /\ lastFetch[p] # "none"

\* the scraper is in the wait that follows a successful poll
InShortWait(p) == InWait(p) /\ lastFetch[p] \in Readings

\* C17 as stated: a scraper in the wait that follows a successful poll has
\* its counter _tries_since_logged at 0.
C17_CounterZeroAfterSuccess ==
    \A p \in Insts : InShortWait(p) => tries_since_logged[p] = 0

\* C17 as the code has it: a successful poll does not reset the counter.
\* The counter counts the polls, successful or not, since it was last set
\* to 0, so in the wait that follows a successful poll it is at least 1;
\* the steps of a successful poll leave it as it is; it is set to 0 only
\* together with a failure notice; and the first failure of every run of
\* failures sets it to 0, so the notices come as if a success had reset it.
C17_CounterResetOnlyWithNotice ==
    /\ [](\A p \in Insts :
             /\ InShortWait(p) => tries_since_logged[p] >= 1
             /\ (pc[p] = "fail_store" /\ runPos[p] = 0) =>
                    tries_since_logged[p] = 0)
    /\ [][\A p \in Insts :
             /\ pc[p] \in {"fetching", "store", "store_locked", "stored"}
                    /\ pc'[p] \in {"store", "store_locked", "stored", "wait_check"}
                 => tries_since_logged'[p] = tries_since_logged[p]
             /\ (tries_since_logged[p] # 0 /\ tries_since_logged'[p] = 0) =>
                    notice'[p] = "failed"]_vars

\* a scraper waits after the latest of as many successful polls in a row
\* as the threshold, and its counter has reached the threshold
C17_Witness ==
    \E p \in Insts :
        /\ InShortWait(p)
        /\ ~previously_failed[p]
        /\ tries_since_logged[p] = RETRIES_BETWEEN_LOGS

\* the scraper takes a step of its own
Steps(p) == pc'[p] # pc[p]

\* C18: when a fetch returns a reading, _previously_failed is set exactly
\* if the scraper's preceding attempt failed (not if it succeeded, nor if
\* there was none); the flag stays as it is up to the statement that logs;
\* that statement writes the "reconnected" notice exactly if the flag is
\* set, and clears it; and no other step of the scraper writes that
\* notice.  So a success writes one "reconnected" notice if the attempt
\* before it failed and none otherwise, and a run of failures ended by a
\* success gives exactly one.
C18_ReconnectedOncePerOutage ==
    [][\A p \in Insts :
          /\ (pc[p] = "fetching" /\ pc'[p] = "store") =>
                 (previously_failed[p] <=> lastFetch[p] = "fail")
          /\ (Steps(p) /\ pc[p] \in {"fetching", "store", "store_locked"}
                       /\ pc'[p] \in {"store", "store_locked", "stored"}) =>
                 previously_failed'[p] = previously_failed[p]
          /\ (Steps(p) /\ pc[p] = "stored") =>
                 /\ notice'[p] = "reconnected" <=> previously_failed[p]
                 /\ ~previously_failed'[p]
          /\ (Steps(p) /\ pc[p] # "stored") => notice'[p] # "reconnected"]_vars

\* a success that ended a run of two failures, the second without a
\* failure notice, has written the "reconnected" notice
C18_Witness ==
    \E p \in Insts :
        /\ notice[p] = "reconnected"
        /\ pc[p] = "wait_check"
        /\ ~previously_failed[p]
        /\ tries_since_logged[p] = 2

\* the number of one-second sleeps of the wait that follows a fetch
WaitAfter(result) ==
    IF result = "fail" THEN WAIT_BETWEEN_FAILED_UPDATES ELSE WAIT_BETWEEN_UPDATES

\* C19: the wait after a successful fetch is of WAIT_BETWEEN_UPDATES
\* one-second sleeps and the wait after a failed one of
\* WAIT_BETWEEN_FAILED_UPDATES: a wait starts with no sleep done, every
\* sleep counts one, and a scraper whose flag is not cleared leaves the
\* wait only with exactly that many sleeps done.  A scraper starts a fetch
\* only from the top of its loop, with no wait and no result of a fetch of
\* its own pending.
C19_WaitLengths ==
    /\ [](\A p \in Insts :
             InWait(p) =>
                 /\ seconds[p] = WaitAfter(lastFetch[p])
                 /\ tick[p] \in 0..seconds[p])
    /\ [][\A p \in Insts :
             /\ (~InWait(p) /\ InWait(p)') => tick'[p] = 0
             /\ (pc[p] = "sleeping" /\ Steps(p)) =>
                    /\ pc'[p] = "wait_check"
                    /\ tick'[p] = tick[p] + 1
             /\ (InWait(p) /\ ~InWait(p)' /\ running[p]) =>
                    /\ tick[p] = WaitAfter(lastFetch[p])
                    /\ pc'[p] = "while"
             /\ (pc[p] # "fetching" /\ pc'[p] = "fetching") =>
                    /\ pc[p] = "try"
                    /\ seconds[p] = 0 /\ tick[p] = 0
                    /\ temp_data[p] = None
             /\ pc'[p] = "try" /\ Steps(p) => pc[p] = "while"]_vars

\* one scraper has done every sleep of the wait after a failure and the
\* other every sleep of the wait after a success; no stop was requested
C19_Witness ==
    \E p, q \in Insts :
        /\ pc[p] = "wait_check" /\ lastFetch[p] = "fail"
        /\ tick[p] = WAIT_BETWEEN_FAILED_UPDATES
        /\ pc[q] = "wait_check" /\ lastFetch[q] \in Readings
        /\ tick[q] = WAIT_BETWEEN_UPDATES
        /\ running[p] /\ running[q]

\* the most steps the handler has still to take inside `with
\* _scraped_data_lock`; 0 when it is not inside
Remaining(h) ==
    IF hpc[h] = "all_loop" THEN Cardinality(todo[h]) + 1
    ELSE IF hpc[h] = "detail_known" THEN 3
    ELSE IF hpc[h] = "detail_avail" THEN 2
    ELSE IF hpc[h] = "detail_dumps" THEN 1
    ELSE 0

\* C20: the lock is owned exactly by a handler inside its `with` block or
\* by a scraper at its assignment, and by no thread that has finished or
\* waits; the owner can always take its next step, a scraper's next step
\* releases the lock, and every step of a handler inside the block brings
\* it nearer to the end of the block, where the lock is released whatever
\* the response (200, not known, unavailable, not serializable).  So no
\* thread keeps the lock, and a handler that has answered, also with an
\* error, can take the next request.
C20_LockAlwaysReleased ==
    /\ [](/\ scraped_data_lock \in {None} \cup Handlers \cup Insts
          /\ \A h \in Handlers :
                /\ scraped_data_lock = h <=> Remaining(h) > 0
                /\ scraped_data_lock = h => ENABLED HandlerStep(h)
                /\ hpc[h] = "done" =>
                       ENABLED (\E r \in Requests : HReceive(h, r))
          /\ \A p \in Insts :
                /\ scraped_data_lock = p <=> pc[p] \in Write_pcs
                /\ scraped_data_lock = p => ENABLED PollerStep(p))
    /\ [][/\ \A h \in Handlers :
                /\ (scraped_data_lock = h /\ <<hpc[h], todo[h]>> # <<hpc'[h], todo'[h]>>)
                       => Remaining(h)' < Remaining(h)
                /\ Answers(h) => scraped_data_lock' = None
          /\ \A p \in Insts :
                (pc[p] \in Write_pcs /\ Steps(p)) => scraped_data_lock' = None]_vars

\* a detail request has ended with the serialization error, and a scraper
\* has taken the lock since
C20_Witness ==
    \E h \in Handlers :
        /\ hpc[h] = "done"
        /\ resp[h].error = "Unable to convert instrument data to JSON"
        /\ scraped_data_lock \in Insts

\* C21: whenever a scraper is in a wait, or has stopped after at least one
\* completed fetch, it has an entry, and _previously_failed is set exactly
\* when that entry is "" and clear exactly when the entry is a reading.
C21_FlagMatchesEntry ==
    \A p \in Insts :
        (InWait(p) \/ (Stopped(p) /\ lastFetch[p] # "none")) =>
            /\ p \in DOMAIN scraped_data
            /\ previously_failed[p] <=> scraped_data[p] = Unavailable
            /\ ~previously_failed[p] <=> scraped_data[p] \in Readings

\* one scraper waits after a failure that went without a notice, its flag
\* set; the other has stopped after a successful poll, its flag clear
C21_Witness ==
    \E p, q \in Insts :
        /\ InWait(p) /\ previously_failed[p] /\ scraped_data[p] = Unavailable
        /\ runPos[p] = RETRIES_BETWEEN_LOGS - 1
        /\ Stopped(q) /\ ~previously_failed[q]
        /\ q \in DOMAIN scraped_data /\ scraped_data[q] \in Readings

\* how far a position of run() is from the top of the loop body, in the
\* order in which a scraper whose flag is cleared passes through them
StopRank(at) ==
    IF at = "try" THEN 1
    ELSE IF at = "fetching" THEN 2
    ELSE IF at \in {"store", "except"} THEN 3
    ELSE IF at \in {"store_locked", "fail_store"} THEN 4
    ELSE IF at \in {"stored", "fail_locked"} THEN 5
    ELSE IF at = "sleeping" THEN 6
    ELSE IF at = "wait_check" THEN 7
    ELSE IF at = "while" THEN 8
    ELSE 9

\* C22: every step of a scraper whose flag is cleared takes it forward in
\* run(), never back to an earlier position, so from the clearing on it
\* starts at most one fetch and makes at most one assignment.  A scraper
\* whose flag was cleared when a fetch was about to start or in flight
\* still assigns the result of that fetch (the reading, or ""), is then in
\* the wait without ever sleeping, and stops with that result as its entry.
\* And a scraper whose flag is cleared and which is not in a fetch stops.
C22_OneMoreFetchAndWrite ==
    /\ [][\A p \in Insts :
             /\ (StopRequested(p) /\ Steps(p)) =>
                    StopRank(pc'[p]) > StopRank(pc[p])
             /\ (StopRequested(p) /\ pc[p] \in Write_pcs /\ Steps(p)) =>
                    /\ p \in DOMAIN scraped_data'
                    /\ scraped_data'[p] = EntryOf(lastFetch[p])
             /\ (stopAt[p] = "fetch" /\ pc[p] = "fetching" /\ Steps(p)) =>
                    pc'[p] \in {"store", "except"}]_vars
    /\ [](\A p \in Insts :
             /\ (stopAt[p] = "fetch" /\ InWait(p)) =>
                    pc[p] = "wait_check" /\ tick[p] = 0
             /\ (stopAt[p] = "fetch" /\ Stopped(p)) =>
                    /\ lastFetch[p] # "none"
                    /\ p \in DOMAIN scraped_data
                    /\ scraped_data[p] = EntryOf(lastFetch[p]))
    /\ \A p \in Insts :
           (StopRequested(p) /\ pc[p] \notin {"try", "fetching"}) ~> Stopped(p)

\* both scrapers had their flag cleared around a fetch and have stopped,
\* one with the reading of that fetch as its entry and the other with ""
C22_Witness ==
    \E p, q \in Insts :
        /\ stopAt[p] = "fetch" /\ Stopped(p)
        /\ p \in DOMAIN scraped_data /\ scraped_data[p] \in Readings
        /\ stopAt[q] = "fetch" /\ Stopped(q)
        /\ q \in DOMAIN scraped_data /\ scraped_data[q] = Unavailable

====
